---- MODULE Spec2Model ----
(***************************************************************************)
(* LuminaBook PDF export (services/pdf-service.ts, generatePDF).           *)
(*                                                                         *)
(* Text is a sequence of one-character strings, so that the regular        *)
(* expressions, the JSON serialisation and the template strings of the     *)
(* source are computed character by character.  Lengths are integers in    *)
(* units of 1/30 mm: every length the source computes (tenths of a         *)
(* millimetre, and thirds of them for the banner height) is then exact.    *)
(***************************************************************************)
EXTENDS Integers, Sequences, FiniteSets, TLC

VARIABLES
    book,          \* the EBook handed to generatePDF
    config,        \* the ExportConfig handed to generatePDF
    pc,            \* position of the generatePDF coroutine
    fetch,         \* the fetch loadImage awaits: "none" | "pending" | what
                   \* the attempt came to (FetchOutcomes)
    fetches,       \* number of calls of fetch so far
    img,           \* what the last loadImage resolved to: "null" | "data" |
                   \* "junk" (the data URL of an error response's body)
    docFormat,     \* format: [fmt.width, fmt.height] the document was opened with
    formatKey,     \* const formatKey
    fmt,           \* const fmt
    marginX,       \* const marginX
    marginTop,     \* const marginTop
    marginBottom,  \* const marginBottom
    pages,         \* the jsPDF document: its pages, each with what was drawn
    chapterWord,   \* const chapterWord
    chapterCount,  \* let chapterCount
    ci,            \* index of the chapter the for-of loop is at (1-based)
    cursorY,       \* let cursorY
    contentParts,  \* const contentParts of the current chapter
    wrapCalls,     \* the texts doc.splitTextToSize was called with for the
                   \* body of the current chapter, one per call
    li,            \* index of the next body line of contentParts
    saved,         \* file names doc.save was called with, in order
    isExporting,   \* ExportArchitect's isExporting state: the export button
                   \* is disabled while it is true
    studio,        \* the book VisualStudio was last rendered with
    calls,         \* the calls of handleGenerateImage awaiting generateImage,
                   \* each with the book its closure holds
    isGenerating   \* VisualStudio's isGenerating state

exportVars ==
    <<book, config, pc, fetch, fetches, img, docFormat, formatKey, fmt,
      marginX, marginTop, marginBottom, pages, chapterWord, chapterCount,
      ci, cursorY, contentParts, wrapCalls, li, saved, isExporting>>

studioVars == <<studio, calls, isGenerating>>

vars == <<exportVars, studioVars>>

----------------------------------------------------------------------------
(* Bounds of the model *)

\* longest chapter list drawn freely from ChapterPool
MaxChapters == 2
\* number of one-word paragraphs of the long chapter body
LongLines == 33

----------------------------------------------------------------------------
(* Lengths *)

\* tenths of a millimetre -> units of 1/30 mm
Mm10(t) == t * 3

\* whole millimetres -> units of 1/30 mm
Mm(m) == m * 30

----------------------------------------------------------------------------
(* Text *)

\* an undefined optional field (never equal to a text)
Absent == <<"undefined">>

\* JavaScript truthiness of an optional string
Truthy(s) == s # Absent /\ s # <<>>

\* s || d
OrElse(s, d) == IF Truthy(s) THEN s ELSE d

UpperChars == <<"A","B","C","D","E","F","G","H","I","J","K","L","M","N","O","P","Q","R","S","T","U","V","W","X","Y","Z","Á","É","Í","Ó","Ú","Ñ">>

LowerChars == <<"a","b","c","d","e","f","g","h","i","j","k","l","m","n","o","p","q","r","s","t","u","v","w","x","y","z","á","é","í","ó","ú","ñ">>

Range(s) == {s[i] : i \in DOMAIN s}

\* KELVIN SIGN, an upper-case letter outside ASCII whose lower case is the
\* ASCII letter k; the character is written by its code point
KelvinSign == "U+212A"

\* String.prototype.toLowerCase, character by character
LowerOf == [c \in Range(UpperChars) \cup {KelvinSign} |->
               IF c = KelvinSign THEN "k"
               ELSE LowerChars[CHOOSE i \in DOMAIN UpperChars : UpperChars[i] = c]]

UpperOf == [c \in Range(LowerChars) |->
               UpperChars[CHOOSE i \in DOMAIN LowerChars : LowerChars[i] = c]]

\* String.prototype.toLowerCase and toUpperCase of one character
LowerChar(c) == IF c \in DOMAIN LowerOf THEN LowerOf[c] ELSE c

UpperChar(c) == IF c \in DOMAIN UpperOf THEN UpperOf[c] ELSE c

ToLowerCase(s) == SubSeq([i \in DOMAIN s |-> LowerChar(s[i])], 1, Len(s))

ToUpperCase(s) == SubSeq([i \in DOMAIN s |-> UpperChar(s[i])], 1, Len(s))

RECURSIVE ConcatRange(_, _, _)
\* ss[lo] \o ... \o ss[hi], by halves
ConcatRange(ss, lo, hi) ==
    IF lo > hi THEN <<>>
    ELSE IF lo = hi THEN ss[lo]
    ELSE LET mid == (lo + hi) \div 2
         IN  ConcatRange(ss, lo, mid) \o ConcatRange(ss, mid + 1, hi)

\* concatenation of a sequence of texts
Concat(ss) == ConcatRange(ss, 1, Len(ss))

\* Array.prototype.join
Join(ss, sep) ==
    Concat([i \in 1..(2 * Len(ss) - 1) |->
               IF i % 2 = 1 THEN ss[(i + 1) \div 2] ELSE sep])

Digits == <<"0","1","2","3","4","5","6","7","8","9">>

RECURSIVE NumberToString(_)
\* decimal text of a natural number, as a template string renders it
NumberToString(n) ==
    IF n < 10 THEN <<Digits[n + 1]>>
    ELSE NumberToString(n \div 10) \o <<Digits[(n % 10) + 1]>>

----------------------------------------------------------------------------
(* Regular expressions: a pattern is a sequence of character sets, a       *)
(* regular expression a set of alternative patterns; all of the source's   *)
(* expressions carry the i flag.                                           *)

\* Canonicalize of the i flag (without the u flag): two characters match
\* when their upper cases agree, and a character outside ASCII is never
\* folded onto an ASCII one, so the Kelvin sign matches only itself
Canonicalize(c) == IF c = KelvinSign THEN c ELSE LowerChar(c)

\* a literal as a pattern
Lit(s) == [i \in DOMAIN s |-> {Canonicalize(s[i])}]

MatchAt(pat, s, i) ==
    /\ i + Len(pat) - 1 <= Len(s)
    /\ \A k \in DOMAIN pat : Canonicalize(s[i + k - 1]) \in pat[k]

\* RegExp.prototype.test of an unanchored expression
RegexTest(alts, s) == \E pat \in alts : \E i \in DOMAIN s : MatchAt(pat, s, i)

\* RegExp.prototype.test of an expression anchored with ^
RegexTestAnchored(pat, s) == MatchAt(pat, s, 1)

----------------------------------------------------------------------------
(* JSON.stringify(book.chapters) *)

\* one character of a JSON string literal, escaped
JsonEscapeChar(c) ==
    IF c = "\"" THEN <<"\\", "\"">>
    ELSE IF c = "\\" THEN <<"\\", "\\">>
    ELSE IF c = "\n" THEN <<"\\", "n">>
    ELSE <<c>>

JsonString(s) ==
    <<"\"">> \o Concat([i \in DOMAIN s |-> JsonEscapeChar(s[i])]) \o <<"\"">>

\* the property names of a Chapter, in declaration order
ChapterKeys == <<"id", "title", "content", "summary", "imagePrompt", "imageUrl">>

KeyText ==
    [id |-> <<"i","d">>,
     title |-> <<"t","i","t","l","e">>,
     content |-> <<"c","o","n","t","e","n","t">>,
     summary |-> <<"s","u","m","m","a","r","y">>,
     imagePrompt |-> <<"i","m","a","g","e","P","r","o","m","p","t">>,
     imageUrl |-> <<"i","m","a","g","e","U","r","l">>]

\* "key":"value" of a defined property; undefined properties are left out
JsonMembers(ch) ==
    SelectSeq([k \in DOMAIN ChapterKeys |->
                  IF ch[ChapterKeys[k]] = Absent THEN Absent
                  ELSE JsonString(KeyText[ChapterKeys[k]]) \o <<":">>
                       \o JsonString(ch[ChapterKeys[k]])],
              LAMBDA m : m # Absent)

JsonChapter(ch) == <<"{">> \o Join(JsonMembers(ch), <<",">>) \o <<"}">>

JsonStringify(chapters) ==
    <<"[">> \o Join([k \in DOMAIN chapters |-> JsonChapter(chapters[k])], <<",">>)
    \o <<"]">>

----------------------------------------------------------------------------
(* The header heuristics of generatePDF *)

ChapterText == <<"C","h","a","p","t","e","r">>

CapituloText == <<"C","a","p","í","t","u","l","o">>

\* /cap[ií]tulo|introducc|pr[óo]l/i
SpanishRegex ==
    { Lit(<<"c","a","p">>) \o <<{"i", "í"}>> \o Lit(<<"t","u","l","o">>),
      Lit(<<"i","n","t","r","o","d","u","c","c">>),
      Lit(<<"p","r">>) \o <<{"ó", "o"}>> \o Lit(<<"l">>) }

\* /intro|prologue|prólogo|preface|prefacio/i
SpecialRegex ==
    { Lit(<<"i","n","t","r","o">>),
      Lit(<<"p","r","o","l","o","g","u","e">>),
      Lit(<<"p","r","ó","l","o","g","o">>),
      Lit(<<"p","r","e","f","a","c","e">>),
      Lit(<<"p","r","e","f","a","c","i","o">>) }

\* const isSpanish
IsSpanish(chapters) == RegexTest(SpanishRegex, JsonStringify(chapters))

\* faulty variant of ChapterWordOf: only the first alternative of the
\* expression is tested
ChapterWordOfCapituloOnly(chapters) ==
    IF RegexTest({Lit(<<"c","a","p">>) \o <<{"i", "í"}>> \o Lit(<<"t","u","l","o">>)},
                 JsonStringify(chapters))
    THEN CapituloText ELSE ChapterText

\* const chapterWord
ChapterWordOf(chapters) == IF IsSpanish(chapters) THEN CapituloText ELSE ChapterText

\* faulty variant of IsSpecial: the Spanish keywords are forgotten
IsSpecialEnglishOnly(title) ==
    RegexTest({ Lit(<<"i","n","t","r","o">>),
                Lit(<<"p","r","o","l","o","g","u","e">>),
                Lit(<<"p","r","e","f","a","c","e">>) }, title)

\* const isSpecial
IsSpecial(title) == RegexTest(SpecialRegex, title)

\* const startsWithHeader
StartsWithHeader(word, title) == RegexTestAnchored(Lit(word), title)

\* `${chapterWord} ${chapterCount}`
HeaderText(word, count) == word \o <<" ">> \o NumberToString(count)

\* whether the separate header line is drawn for a chapter
DrawsHeader(word, title) == ~IsSpecial(title) /\ ~StartsWithHeader(word, title)

\* faulty variant of CountAfter: the counter advances only with a header
\* line that is drawn
CountAfterHeaderOnly(count, title) ==
    IF DrawsHeader(chapterWord, title) THEN count + 1 ELSE count

\* chapterCount after the header logic of one chapter
CountAfter(count, title) == IF IsSpecial(title) THEN count ELSE count + 1

----------------------------------------------------------------------------
(* The page formats *)

\* faulty variant of FORMATS: width and height of a4 are exchanged
FORMATSWideA4 ==
    [pocket |->
        [width |-> Mm10(1270), height |-> Mm10(2032),
         margin |-> [top |-> Mm10(150), bottom |-> Mm10(150), x |-> Mm10(120)],
         fontSize |-> [body |-> 11, title |-> 18, chapter |-> 12],
         lineHeight |-> Mm10(50)],
     letter |->
        [width |-> Mm10(2159), height |-> Mm10(2794),
         margin |-> [top |-> Mm10(254), bottom |-> Mm10(254), x |-> Mm10(254)],
         fontSize |-> [body |-> 12, title |-> 24, chapter |-> 16],
         lineHeight |-> Mm10(70)],
     a4 |->
        [width |-> Mm10(2970), height |-> Mm10(2100),
         margin |-> [top |-> Mm10(254), bottom |-> Mm10(254), x |-> Mm10(254)],
         fontSize |-> [body |-> 12, title |-> 24, chapter |-> 16],
         lineHeight |-> Mm10(70)]]

FORMATS ==
    [pocket |->
        [width |-> Mm10(1270), height |-> Mm10(2032),
         margin |-> [top |-> Mm10(150), bottom |-> Mm10(150), x |-> Mm10(120)],
         fontSize |-> [body |-> 11, title |-> 18, chapter |-> 12],
         lineHeight |-> Mm10(50)],
     letter |->
        [width |-> Mm10(2159), height |-> Mm10(2794),
         margin |-> [top |-> Mm10(254), bottom |-> Mm10(254), x |-> Mm10(254)],
         fontSize |-> [body |-> 12, title |-> 24, chapter |-> 16],
         lineHeight |-> Mm10(70)],
     a4 |->
        [width |-> Mm10(2100), height |-> Mm10(2970),
         margin |-> [top |-> Mm10(254), bottom |-> Mm10(254), x |-> Mm10(254)],
         fontSize |-> [body |-> 12, title |-> 24, chapter |-> 16],
         lineHeight |-> Mm10(70)]]

\* config.pageSize || 'a4'
FormatKeyOf(pageSize) == IF pageSize = "" THEN "a4" ELSE pageSize

\* names FORMATS, an object literal, inherits from Object.prototype
ObjectPrototypeKeys == {"constructor", "toString", "valueOf", "hasOwnProperty"}

\* FORMATS[formatKey] || FORMATS['a4']: an own key gives its entry; an
\* inherited name gives a function, which is truthy, so the fallback is not
\* taken; any other key gives undefined and so the a4 entry
FormatOf(key) ==
    IF key \in DOMAIN FORMATS THEN FORMATS[key]
    ELSE IF key \in ObjectPrototypeKeys THEN [inherited |-> key]
    ELSE FORMATS["a4"]

\* whether fmt.margin is defined, so that lines 60-62 can read fmt.margin.x
HasMargin(f) == "margin" \in DOMAIN f

WithBleedOfThree(bleed, m) == IF bleed THEN m + Mm(3) ELSE m

\* config.bleed ? m + 5 : m
WithBleed(bleed, m) == IF bleed THEN m + Mm(5) ELSE m

\* fmt.width - (marginX * 2)
ContentWidth(f, mx) == f.width - (mx * 2)

\* fmt.height - marginBottom
BottomLimit(f, mb) == f.height - mb

\* faulty variant of Overflows: the break comes one line early
OverflowsOneLineEarly(y, f, mb) == y + (2 * f.lineHeight) > BottomLimit(f, mb)

\* faulty variant of Overflows: the line height is left out of the test
OverflowsPastLimit(y, f, mb) == y > BottomLimit(f, mb)

\* the page-break test of the body loop
Overflows(y, f, mb) == y + f.lineHeight > BottomLimit(f, mb)

\* const imgHeight of the chapter banner
BannerHeight(f, mx) == ContentWidth(f, mx) \div 3

----------------------------------------------------------------------------
(* doc.splitTextToSize: greedy word wrap of each line-break-separated      *)
(* paragraph; a character is CharWidth wide at a font size                 *)

\* String.prototype.split on a one-character separator
SplitOn(s, sep) ==
    LET \* the positions of the separators, ascending
        at == SelectSeq([i \in 1..Len(s) |-> i], LAMBDA i : s[i] = sep)
        \* position of the k-th separator; 0 before the first, Len(s) + 1
        \* after the last
        pos(k) == IF k = 0 THEN 0
                  ELSE IF k > Len(at) THEN Len(s) + 1
                  ELSE at[k]
    IN  [k \in 1..(Len(at) + 1) |-> SubSeq(s, pos(k - 1) + 1, pos(k) - 1)]

\* width of one character at a font size (points), in units of 1/30 mm
CharWidth(fontSize) == 5 * fontSize

TextWidth(s, fontSize) == Len(s) * CharWidth(fontSize)

RECURSIVE WrapWords(_, _, _, _)
\* the lines of the words left, cur being the line under construction
WrapWords(words, cur, maxWidth, fontSize) ==
    IF words = <<>> THEN <<cur>>
    ELSE LET cand == cur \o <<" ">> \o Head(words)
         IN  IF TextWidth(cand, fontSize) <= maxWidth
             THEN WrapWords(Tail(words), cand, maxWidth, fontSize)
             ELSE <<cur>> \o WrapWords(Tail(words), Head(words), maxWidth, fontSize)

WrapParagraph(par, maxWidth, fontSize) ==
    LET words == SplitOn(par, " ")
    IN  WrapWords(Tail(words), Head(words), maxWidth, fontSize)

SplitTextToSize(text, maxWidth, fontSize) ==
    LET pars == SplitOn(text, "\n")
    IN  Concat([k \in DOMAIN pars |-> WrapParagraph(pars[k], maxWidth, fontSize)])

----------------------------------------------------------------------------
(* The document under construction *)

\* a blank page, tagged with the section that opened it
NewPage(section, chapter) == [section |-> section, chapter |-> chapter, ops |-> <<>>]

\* doc.addPage()
AddPage(pp, section, chapter) == Append(pp, NewPage(section, chapter))

\* one drawing call on the current page: kind, top y, height (images and
\* rectangles), text lines
Op(kind, y, h, lines) == [kind |-> kind, y |-> y, h |-> h, lines |-> lines]

\* a drawing call lands on the last page added
Draw(pp, op) == [pp EXCEPT ![Len(pp)].ops = Append(@, op)]

RECURSIVE DrawAll(_, _)
DrawAll(pp, ops) == IF ops = <<>> THEN pp ELSE DrawAll(Draw(pp, Head(ops)), Tail(ops))

\* p percent of a length (fmt.height * 0.15 and the like), to the unit
Percent(len, p) == (len * p) \div 100

----------------------------------------------------------------------------
(* loadImage *)

\* what the single attempt of loadImage can come to: the image is fetched and
\* encoded ("ok"); fetch rejects; fetch resolves with a non-success response
\* ("httpError"); response.blob() rejects ("bodyError"); the FileReader
\* reports an error ("readError")
FetchOutcomes == {"ok", "reject", "httpError", "bodyError", "readError"}

\* the value loadImage resolves to.  Lines 40-46 never look at response.ok
\* or response.status: the body of a non-success response is read and encoded
\* like an image, and the promise resolves to its data URL ("junk").  The
\* catch of line 48 and reader.onerror of line 45 give null.
LoadResult(outcome) ==
    CASE outcome = "ok" -> "data"
      [] outcome = "httpError" -> "junk"
      [] outcome \in {"reject", "bodyError", "readError"} -> "null"

\* if (image): a data URL is truthy, whatever it encodes
Loaded(image) == image # "null"

\* whether doc.addImage(image, 'JPEG', ...) throws: image data is drawn; the
\* encoded body of an error response is drawn when the server sent a picture
\* with it and makes addImage throw when it sent anything else
AddImageThrows(image) == IF image = "junk" THEN BOOLEAN ELSE {FALSE}

FetchForAlways(url) == "pending"

\* the fetch state a call loadImage(url || "") leaves behind
FetchFor(url) == IF Truthy(url) THEN "pending" ELSE "none"

\* the number of fetch calls after a call of loadImage that left state f
FetchesAfter(n, f) == IF f = "pending" THEN n + 1 ELSE n

AwaitPcs == {"awaitCover", "awaitAuthor", "awaitChapter", "awaitBack"}

\* where generatePDF resumes after each await
ResumeAt(p) ==
    CASE p = "awaitCover" -> "paintCover"
      [] p = "awaitAuthor" -> "paintAuthor"
      [] p = "awaitChapter" -> "chapterHead"
      [] p = "awaitBack" -> "paintBack"

----------------------------------------------------------------------------
(* The file name *)

AsciiLetters == Range(<<"a","b","c","d","e","f","g","h","i","j","k","l","m","n","o","p","q","r","s","t","u","v","w","x","y","z","A","B","C","D","E","F","G","H","I","J","K","L","M","N","O","P","Q","R","S","T","U","V","W","X","Y","Z">>)

\* .replace(/[^a-z0-9]/gi, '_').toLowerCase()
Slug(s) ==
    ToLowerCase([i \in DOMAIN s |->
        IF s[i] \in AsciiLetters \cup Range(Digits) THEN s[i] ELSE "_"])

BookText == <<"b","o","o","k">>

PdfExt == <<".","p","d","f">>

PageSizeText ==
    [pocket |-> <<"p","o","c","k","e","t">>,
     letter |-> <<"l","e","t","t","e","r">>,
     a4 |-> <<"a","4">>,
     legal |-> <<"l","e","g","a","l">>,
     constructor |-> <<"c","o","n","s","t","r","u","c","t","o","r">>]

\* `${safeTitle}_${formatKey}.pdf`
FileName(title, key) == Slug(OrElse(title, BookText)) \o <<"_">> \o PageSizeText[key] \o PdfExt

----------------------------------------------------------------------------
(* Inputs: the books and export configurations an export is started with   *)

EnglishBody == <<"O","n","c","e"," ","u","p","o","n"," ","a"," ","t","i","m","e">>

SpanishBody == <<"E","l"," ","p","r","i","m","e","r"," ","c","a","p","í","t","u","l","o","\n","f","u","e"," ","l","a","r","g","o">>

\* LongLines one-word paragraphs: w1, w2, ...
LongBody == Join([i \in 1..LongLines |-> <<"w">> \o NumberToString(i)], <<"\n">>)

ImageUrl == <<"h","t","t","p","s",":","/","/","i","m","g","/","1",".","j","p","g">>

MkChapter(id, title, content, imageUrl) ==
    [id |-> id, title |-> title, content |-> content, summary |-> Absent,
     imagePrompt |-> Absent, imageUrl |-> imageUrl]

Prologue == MkChapter(<<"1">>, <<"P","r","o","l","o","g","u","e">>, EnglishBody, Absent)

TheStart == MkChapter(<<"2">>, <<"T","h","e"," ","S","t","a","r","t">>, EnglishBody, ImageUrl)

Chapter2 == MkChapter(<<"3">>, <<"C","h","a","p","t","e","r"," ","2",":"," ","E","s","c","a","l","a","t","i","o","n">>, EnglishBody, Absent)

TheEnd == MkChapter(<<"4">>, <<"T","h","e"," ","E","n","d">>, LongBody, Absent)

\* a chapter body of two paragraphs with a blank line between them, the
\* first longer than a line of any format
TwoParagraphs == <<"T","h","e"," ","q","u","i","c","k"," ","b","r","o","w","n"," ","f","o","x"," ","j","u","m","p","s"," ","o","v","e","r"," ","t","h","e"," ","l","a","z","y"," ","d","o","g"," ","a","n","d"," ","r","u","n","s"," ","f","a","r"," ","a","w","a","y"," ","f","r","o","m"," ","t","h","e"," ","o","l","d"," ","f","a","r","m"," ","h","o","u","s","e","\n","\n","T","h","e","n"," ","i","t"," ","s","l","e","e","p","s">>

\* a chapter with a banner, a title longer than a pocket line, and a body
\* that wraps
LongRoad == MkChapter(<<"1","1">>, <<"T","h","e"," ","L","o","n","g"," ","R","o","a","d"," ","H","o","m","e"," ","T","h","r","o","u","g","h"," ","t","h","e"," ","H","i","l","l","s">>, TwoParagraphs, ImageUrl)

\* a chapter title of twenty-five long words, each a line of its own on a
\* pocket page
EndlessTitle ==
    <<"I","n","c","o","m","p","r","e","h","e","n","s","i","b","l","e"," ","I","n","c","o","m","p","r","e","h","e","n","s","i","b","l","e"," ","I","n","c","o","m","p","r","e","h","e","n","s","i","b","l","e"," ","I","n","c","o","m","p","r","e","h","e","n","s","i","b","l","e"," ","I","n","c","o","m","p","r","e","h","e","n","s","i","b","l","e"," ","I","n","c","o","m","p","r","e","h","e","n","s","i","b","l","e"," ","I","n","c","o","m","p","r","e","h","e","n","s","i","b","l","e"," ","I","n","c","o","m","p","r","e","h","e","n","s","i","b","l","e"," ","I","n","c","o","m","p","r","e","h","e","n","s","i","b","l","e"," ","I","n","c","o","m","p","r","e","h","e","n","s","i","b","l","e"," ","I","n","c","o","m","p","r","e","h","e","n","s","i","b","l","e"," ","I","n","c","o","m","p","r","e","h","e","n","s","i","b","l","e"," ","I","n","c","o","m","p","r","e","h","e","n","s","i","b","l","e"," ","I","n","c","o","m","p","r","e","h","e","n","s","i","b","l","e"," ","I","n","c","o","m","p","r","e","h","e","n","s","i","b","l","e"," ","I","n","c","o","m","p","r","e","h","e","n","s","i","b","l","e"," ","I","n","c","o","m","p","r","e","h","e","n","s","i","b","l","e"," ","I","n","c","o","m","p","r","e","h","e","n","s","i","b","l","e"," ","I","n","c","o","m","p","r","e","h","e","n","s","i","b","l","e"," ","I","n","c","o","m","p","r","e","h","e","n","s","i","b","l","e"," ","I","n","c","o","m","p","r","e","h","e","n","s","i","b","l","e"," ","I","n","c","o","m","p","r","e","h","e","n","s","i","b","l","e"," ","I","n","c","o","m","p","r","e","h","e","n","s","i","b","l","e"," ","I","n","c","o","m","p","r","e","h","e","n","s","i","b","l","e"," ","I","n","c","o","m","p","r","e","h","e","n","s","i","b","l","e">>

\* a chapter with a banner and a title that fills a page
Endless == MkChapter(<<"1","2">>, EndlessTitle, EnglishBody, ImageUrl)

\* the chapter list of the numbering example
ExampleChapters == <<Prologue, TheStart, Chapter2, TheEnd>>

ChapterPool ==
    { Prologue, TheStart, Chapter2, TheEnd,
      MkChapter(<<"5">>, <<"C","A","P","Í","T","U","L","O"," ","1",":"," ","E","L"," ","V","I","A","J","E">>, EnglishBody, Absent),
      MkChapter(<<"6">>, <<"P","r","e","f","a","c","e">>, EnglishBody, ImageUrl),
      MkChapter(<<"7">>, <<"N","i","g","h","t">>, SpanishBody, Absent),
      MkChapter(<<"8">>, <<"A","n"," ","I","N","T","R","O">>, EnglishBody, Absent),
      MkChapter(<<"9">>, <<"P","R","Ó","L","O","G","O">>, EnglishBody, Absent),
      MkChapter(<<"1","0">>, <<"M","i"," ","p","r","e","f","a","c","i","o">>, EnglishBody, Absent) }

ChapterLists ==
    {ExampleChapters} \cup UNION {[1..n -> ChapterPool] : n \in 0..MaxChapters}

BookTitle == <<"M","y",","," ","B","o","o","k","!"," ","2","0","2","4">>

\* a title with the Kelvin sign: 300 K
KelvinTitle == <<"3","0","0"," ",KelvinSign>>

\* title: a text, a text with a letter outside ASCII, the empty string,
\* undefined
Titles == {BookTitle, KelvinTitle, <<>>, Absent}

AuthorName == <<"A","n","a"," ","R","u","i","z">>

\* author: a text, the empty string, undefined
Authors == {AuthorName, <<>>, Absent}

\* the optional fields of a book that the export reads
OptionalFields == {"authorBio", "authorImageUrl", "coverImageUrl", "backCoverImageUrl"}

\* a book without any optional field
BareFront ==
    [authorBio |-> Absent, authorImageUrl |-> Absent,
     coverImageUrl |-> Absent, backCoverImageUrl |-> Absent]

\* a book with every optional field
FullFront ==
    [authorBio |-> <<"W","r","i","t","e","s"," ","b","o","o","k","s">>, authorImageUrl |-> ImageUrl,
     coverImageUrl |-> ImageUrl, backCoverImageUrl |-> ImageUrl]

\* the optional fields of a book: every set of them undefined, or all of
\* them empty strings
FrontMatter ==
    { [f \in OptionalFields |-> IF f \in missing THEN Absent ELSE FullFront[f]] :
        missing \in SUBSET OptionalFields }
    \cup { [f \in OptionalFields |-> <<>>] }

Book(title, author, fm, chs) ==
    [title |-> title, author |-> author,
     description |-> <<"A"," ","t","a","l","e">>,
     authorBio |-> fm.authorBio, authorImageUrl |-> fm.authorImageUrl,
     coverImageUrl |-> fm.coverImageUrl,
     backCoverImageUrl |-> fm.backCoverImageUrl,
     chapters |-> chs]

\* pageSize: the three catalog keys, two unknown keys, and an absent one
PageSizes == {"pocket", "letter", "a4", "legal", "constructor", ""}

Configs == [pageSize : PageSizes, bleed : BOOLEAN]

\* the configuration the export screen starts with (ExportArchitect)
DefaultConfig == [pageSize |-> "a4", bleed |-> TRUE]

\* the chapter lists exported under every configuration
ShortLists == {chs \in ChapterLists : Len(chs) <= 1 \/ chs = ExampleChapters}

\* The exports checked: the short lists without optional fields under every
\* configuration, and those of one chapter at most also with every optional
\* field; every front matter under the default configuration; every chapter
\* list bare under the default configuration; every title and author; a
\* chapter with a title of many lines as a pocket book.
Inputs ==
    { <<Book(BookTitle, AuthorName, BareFront, chs), cfg>> :
        chs \in ShortLists \cup {<<LongRoad>>}, cfg \in Configs }
    \cup { <<Book(BookTitle, AuthorName, FullFront, chs), cfg>> :
             chs \in {c \in ShortLists : Len(c) <= 1}, cfg \in Configs }
    \cup { <<Book(BookTitle, AuthorName, fm, chs), DefaultConfig>> :
             fm \in FrontMatter, chs \in {<<>>, <<TheStart>>, ExampleChapters} }
    \cup { <<Book(BookTitle, AuthorName, BareFront, chs), DefaultConfig>> :
             chs \in ChapterLists }
    \cup { <<Book(t, a, BareFront, chs), DefaultConfig>> :
             t \in Titles, a \in Authors, chs \in {<<>>, <<TheStart>>} }
    \cup { <<Book(BookTitle, AuthorName, BareFront, <<Endless>>),
              [pageSize |-> "pocket", bleed |-> b]>> : b \in BOOLEAN }

----------------------------------------------------------------------------
(* VisualStudio: image generation for the cover, the back cover and the    *)
(* chapters (components/steps/VisualStudio.tsx)                            *)

\* the most calls of handleGenerateImage awaiting generateImage at a time
MaxCalls == 2

\* the targets of handleGenerateImage: 'cover', 'back', a chapter id
Targets == {"cover", "back", "2"}

Themes == {"classic", "noir"}

NoUrl == "undefined"

\* the URL generateImage resolves to for a target
UrlFor(target) == "url:" \o target

\* the book of the editor: its image URLs by target, its theme
NewBook == [images |-> [t \in Targets |-> NoUrl], theme |-> "classic"]

\* setBook({ ...snapshot, <image URL of the target>: generatedUrl })
WithImage(snapshot, target, url) == [snapshot EXCEPT !.images[target] = url]

\* the sequence without its i-th element
Without(seq, i) == SubSeq(seq, 1, i - 1) \o SubSeq(seq, i + 1, Len(seq))

\* the buttons that call handleGenerateImage: the cover and the back button
\* give way to a skeleton while isGenerating is their target; the buttons of
\* a chapter on its preview page are always there
CanClick(target) ==
    IF target \in {"cover", "back"} THEN isGenerating # target ELSE TRUE

\* VisualStudio as it is first rendered
StudioIdle ==
    /\ studio = NewBook
    /\ calls = <<>>
    /\ isGenerating = "null"


----------------------------------------------------------------------------
(* generatePDF *)

Init ==
    /\ \E in \in Inputs : book = in[1] /\ config = in[2]
    /\ pc = "start"
    /\ fetch = "none"
    /\ fetches = 0
    /\ img = "null"
    /\ docFormat = <<>>
    /\ formatKey = ""
    /\ fmt = FORMATS["a4"]
    /\ marginX = 0
    /\ marginTop = 0
    /\ marginBottom = 0
    /\ pages = <<>>
    /\ chapterWord = <<>>
    /\ chapterCount = 0
    /\ ci = 0
    /\ cursorY = 0
    /\ contentParts = <<>>
    /\ wrapCalls = <<>>
    /\ li = 0
    /\ saved = <<>>
    /\ isExporting = FALSE
    /\ StudioIdle

\* handleExport (ExportArchitect.tsx lines 18-22) sets isExporting and calls
\* generatePDF.  Lines 55-71: resolve the format and the margins, open the
\* document on its first page, call loadImage for the cover.  Reading
\* fmt.margin.x of a value without a margin is a TypeError.
StartExport ==
    /\ pc = "start"
    /\ isExporting' = TRUE
    /\ formatKey' = FormatKeyOf(config.pageSize)
    /\ fmt' = FormatOf(formatKey')
    /\ IF HasMargin(fmt')
       THEN /\ marginX' = WithBleed(config.bleed, fmt'.margin.x)
            /\ marginTop' = WithBleed(config.bleed, fmt'.margin.top)
            /\ marginBottom' = WithBleed(config.bleed, fmt'.margin.bottom)
            /\ docFormat' = <<fmt'.width, fmt'.height>>
            /\ pages' = <<NewPage("cover", 0)>>
            /\ fetch' = FetchFor(book.coverImageUrl)
            /\ fetches' = FetchesAfter(fetches, fetch')
            /\ pc' = "awaitCover"
       ELSE /\ pc' = "failed"
            /\ UNCHANGED <<marginX, marginTop, marginBottom, docFormat, pages,
                           fetch, fetches>>
    /\ UNCHANGED <<studioVars, book, config, wrapCalls, img, chapterWord, chapterCount, ci, cursorY,
                   contentParts, li, saved>>

\* loadImage line 38: no URL, resolve to null without fetching
LoadImageNoUrl ==
    /\ pc \in AwaitPcs
    /\ fetch = "none"
    /\ img' = "null"
    /\ pc' = ResumeAt(pc)
    /\ UNCHANGED <<studioVars, book, config, isExporting, wrapCalls, fetches, docFormat, fetch, formatKey, fmt, marginX, marginTop,
                   marginBottom, pages, chapterWord, chapterCount, ci, cursorY,
                   contentParts, li, saved>>

\* loadImage lines 40-46: the attempt comes to one of its outcomes
FetchSettle ==
    /\ pc \in AwaitPcs
    /\ fetch = "pending"
    /\ \E outcome \in FetchOutcomes : fetch' = outcome
    /\ UNCHANGED <<studioVars, book, config, isExporting, wrapCalls, pc, fetches, img, docFormat, formatKey, fmt,
                   marginX, marginTop, marginBottom, pages, chapterWord,
                   chapterCount, ci, cursorY, contentParts, li, saved>>

\* faulty variant of LoadImageResolve: a pending fetch is given up and the
\* promise resolves to null
LoadImageResolveWithTimeout ==
    /\ pc \in AwaitPcs
    /\ fetch \in FetchOutcomes \cup {"pending"}
    /\ img' = IF fetch = "pending" THEN "null" ELSE LoadResult(fetch)
    /\ fetch' = "none"
    /\ pc' = ResumeAt(pc)
    /\ UNCHANGED <<studioVars, book, config, isExporting, wrapCalls, fetches, docFormat, formatKey, fmt, marginX,
                   marginTop, marginBottom, pages, chapterWord, chapterCount,
                   ci, cursorY, contentParts, li, saved>>

\* loadImage lines 42-51: the promise resolves and generatePDF resumes
LoadImageResolve ==
    /\ pc \in AwaitPcs
    /\ fetch \in FetchOutcomes
    /\ img' = LoadResult(fetch)
    /\ fetch' = "none"
    /\ pc' = ResumeAt(pc)
    /\ UNCHANGED <<studioVars, book, config, isExporting, wrapCalls, fetches, docFormat, formatKey, fmt, marginX,
                   marginTop, marginBottom, pages, chapterWord, chapterCount,
                   ci, cursorY, contentParts, li, saved>>

\* shadowOffsets, in units of 1/30 mm
ShadowOffsets == <<6, 12, 18, 24>>

\* lines 73-120: the front cover
CoverOps ==
    LET background ==
            IF Loaded(img)
            THEN << Op("coverImage", 0, fmt.height, <<>>),
                    Op("overlay", 0, Percent(fmt.height, 35), <<>>),
                    Op("overlay", Percent(fmt.height, 80), Percent(fmt.height, 20), <<>>) >>
            ELSE << Op("fill", 0, fmt.height, <<>>) >>
        titleLines == SplitTextToSize(ToUpperCase(book.title),
                                      ContentWidth(fmt, marginX),
                                      (fmt.fontSize.title * 5) \div 2)
        titleY == Percent(fmt.height, 15)
        authorY == Percent(fmt.height, 90)
    IN  background
        \o [k \in DOMAIN ShadowOffsets |->
               Op("coverTitleShadow", titleY + ShadowOffsets[k], 0, titleLines)]
        \o << Op("coverTitle", titleY, 0, titleLines),
              Op("coverAuthor", authorY, 0,
                 <<OrElse(book.author, <<"A","u","t","h","o","r"," ","N","a","m","e">>)>>),
              Op("edition", authorY + Mm(8), 0, <<<<"L","u","m","i","n","a","B","o","o","k"," ","E","d","i","t","i","o","n">>>>) >>

\* lines 73-120.  doc.addImage may throw (line 74), and
\* book.title.toUpperCase() of an undefined title is a TypeError (line 96).
PaintCover ==
    /\ pc = "paintCover"
    /\ \E throws \in AddImageThrows(img) :
          IF throws \/ book.title = Absent
          THEN /\ pc' = "failed"
               /\ UNCHANGED pages
          ELSE /\ pages' = DrawAll(pages, CoverOps)
               /\ pc' = "titlePage"
    /\ UNCHANGED <<studioVars, book, config, isExporting, wrapCalls, fetches, docFormat, fetch, img, formatKey, fmt, marginX, marginTop,
                   marginBottom, chapterWord, chapterCount, ci, cursorY,
                   contentParts, li, saved>>

\* `by ${book.author}`
ByAuthor(author) ==
    <<"b","y"," ">> \o (IF author = Absent THEN <<"u","n","d","e","f","i","n","e","d">> ELSE author)

\* lines 124-135: the title page
TitlePageOps ==
    LET tpCursor == Percent(fmt.height, 40)
    IN  << Op("titlePageTitle", tpCursor, 0, <<book.title>>),
           Op("titlePageAuthor", tpCursor + Mm(20), 0, <<ByAuthor(book.author)>>) >>

\* line 140: if (book.authorImageUrl || book.authorBio)
HasAuthorPage(b) == Truthy(b.authorImageUrl) \/ Truthy(b.authorBio)

\* lines 124-145: the title page; then, when the book has author material,
\* a new page and the call of loadImage for the portrait
PaintTitlePage ==
    /\ pc = "titlePage"
    /\ LET withTitle == DrawAll(AddPage(pages, "title", 0), TitlePageOps)
       IN  IF HasAuthorPage(book)
           THEN /\ pages' = AddPage(withTitle, "author", 0)
                /\ cursorY' = marginTop
                /\ fetch' = FetchFor(book.authorImageUrl)
                /\ fetches' = FetchesAfter(fetches, fetch')
                /\ pc' = "awaitAuthor"
           ELSE /\ pages' = withTitle
                /\ pc' = "chapters"
                /\ UNCHANGED <<cursorY, fetch, fetches>>
    /\ UNCHANGED <<studioVars, book, config, isExporting, wrapCalls, docFormat, img, formatKey, fmt, marginX, marginTop,
                   marginBottom, chapterWord, chapterCount, ci, contentParts,
                   li, saved>>

\* lines 146-171: the portrait when it loaded, the heading, the bio
AuthorPageOps ==
    LET imgSize == Mm(60)
        headingY == IF Loaded(img) THEN cursorY + imgSize + Mm(15)
                    ELSE cursorY + Mm(20)
        portrait == IF Loaded(img)
                    THEN << Op("portrait", cursorY, imgSize, <<>>),
                            Op("frame", cursorY, imgSize, <<>>) >>
                    ELSE <<>>
        bioLines == SplitTextToSize(
                        OrElse(book.authorBio, <<"A","u","t","h","o","r"," ","b","i","o"," ","n","o","t"," ","p","r","o","v","i","d","e","d",".">>),
                        fmt.width - (marginX * 3), fmt.fontSize.body)
    IN  portrait
        \o << Op("aboutHeading", headingY, 0, <<<<"A","b","o","u","t"," ","t","h","e"," ","A","u","t","h","o","r">>>>),
              Op("bio", headingY + Mm(15), 0, bioLines) >>

PaintAuthorPage ==
    /\ pc = "paintAuthor"
    /\ \E throws \in AddImageThrows(img) :
          IF throws
          THEN /\ pc' = "failed"
               /\ UNCHANGED pages
          ELSE /\ pages' = DrawAll(pages, AuthorPageOps)
               /\ pc' = "chapters"
    /\ UNCHANGED <<studioVars, book, config, isExporting, wrapCalls, fetches, docFormat, fetch, img, formatKey, fmt, marginX, marginTop,
                   marginBottom, chapterWord, chapterCount, ci, cursorY,
                   contentParts, li, saved>>

\* faulty variant of DetectLanguage: the chapters are reversed in place
DetectLanguageReversing ==
    /\ pc = "chapters"
    /\ book' = [book EXCEPT !.chapters = [k \in DOMAIN @ |-> @[Len(@) + 1 - k]]]
    /\ chapterWord' = ChapterWordOf(book.chapters)
    /\ chapterCount' = 0
    /\ ci' = 0
    /\ pc' = "loop"
    /\ UNCHANGED <<studioVars, config, isExporting, wrapCalls, fetches, docFormat, fetch, img, formatKey, fmt, marginX, marginTop,
                   marginBottom, pages, cursorY, contentParts, li, saved>>

\* lines 176-178: the header word of the document, the counter at 0
DetectLanguage ==
    /\ pc = "chapters"
    /\ chapterWord' = ChapterWordOf(book.chapters)
    /\ chapterCount' = 0
    /\ ci' = 0
    /\ pc' = "loop"
    /\ UNCHANGED <<studioVars, book, config, isExporting, wrapCalls, fetches, docFormat, fetch, img, formatKey, fmt, marginX, marginTop,
                   marginBottom, pages, cursorY, contentParts, li, saved>>

\* faulty variant of BeginChapter: loadImage is not awaited
BeginChapterNoAwait ==
    /\ pc = "loop"
    /\ ci < Len(book.chapters)
    /\ ci' = ci + 1
    /\ pages' = AddPage(pages, "chapter", ci')
    /\ cursorY' = marginTop
    /\ fetch' = FetchFor(book.chapters[ci'].imageUrl)
    /\ fetches' = FetchesAfter(fetches, fetch')
    /\ pc' = "chapterHead"
    /\ UNCHANGED <<studioVars, book, config, isExporting, wrapCalls, docFormat, img, formatKey, fmt, marginX, marginTop,
                   marginBottom, chapterWord, chapterCount, contentParts, li,
                   saved>>

\* lines 180-185: the next chapter opens a page and calls loadImage for its
\* banner
BeginChapter ==
    /\ pc = "loop"
    /\ ci < Len(book.chapters)
    /\ ci' = ci + 1
    /\ pages' = AddPage(pages, "chapter", ci')
    /\ cursorY' = marginTop
    /\ fetch' = FetchFor(book.chapters[ci'].imageUrl)
    /\ fetches' = FetchesAfter(fetches, fetch')
    /\ pc' = "awaitChapter"
    /\ UNCHANGED <<studioVars, book, config, isExporting, wrapCalls, docFormat, img, formatKey, fmt, marginX, marginTop,
                   marginBottom, chapterWord, chapterCount, contentParts, li,
                   saved>>

\* lines 186-190: cursorY below the banner when the banner image loaded
BelowBanner(y, image) ==
    IF Loaded(image) THEN y + BannerHeight(fmt, marginX) + Mm(10) ELSE y

\* faulty variant of TitleY: the cursor advances also without a header line
TitleYAlwaysBelow(y, word, title) == y + Mm(8)

\* lines 199-206: cursorY where the chapter title is drawn, y being the cursor
\* the header logic starts at
TitleY(y, word, title) == IF DrawsHeader(word, title) THEN y + Mm(8) ELSE y

\* line 214: const titleLines of a chapter
ChapterTitleLines(title) ==
    SplitTextToSize(title, ContentWidth(fmt, marginX), fmt.fontSize.title)

\* line 216: cursorY after the chapter title drawn at y
BelowTitle(y, titleLines) == y + (Len(titleLines) * Mm(10)) + Mm(10)

\* faulty variant of ContentPartsOf: line breaks are turned into spaces first
ContentPartsOfOneBlock(content) ==
    SplitTextToSize([i \in DOMAIN content |-> IF content[i] = "\n" THEN " " ELSE content[i]],
                    ContentWidth(fmt, marginX), fmt.fontSize.body)

\* faulty variant of ContentPartsOf: the body is wrapped at the page width
ContentPartsOfPageWide(content) ==
    SplitTextToSize(content, fmt.width, fmt.fontSize.body)

\* line 222: const contentParts
ContentPartsOf(content) ==
    SplitTextToSize(content, ContentWidth(fmt, marginX), fmt.fontSize.body)

\* lines 186-216: what a chapter draws above its body
ChapterHeadOps(ch, y0, image, word, count) ==
    LET y1 == BelowBanner(y0, image)
        banner == IF Loaded(image)
                  THEN << Op("banner", y0, BannerHeight(fmt, marginX), <<>>) >>
                  ELSE <<>>
        header == IF DrawsHeader(word, ch.title)
                  THEN << Op("header", y1, 0, <<HeaderText(word, count)>>) >>
                  ELSE <<>>
    IN  banner \o header
        \o << Op("chapterTitle", TitleY(y1, word, ch.title), 0,
                 ChapterTitleLines(ch.title)) >>

\* lines 186-222: the banner, the header logic, the chapter title, the wrap
\* of the body
ChapterHead ==
    /\ pc = "chapterHead"
    /\ \E throws \in AddImageThrows(img) :
          IF throws
          THEN /\ pc' = "failed"
               /\ UNCHANGED <<chapterCount, pages, cursorY, contentParts, wrapCalls, li>>
          ELSE LET ch == book.chapters[ci]
                   y1 == BelowBanner(cursorY, img)
               IN  /\ chapterCount' = CountAfter(chapterCount, ch.title)
                   /\ pages' = DrawAll(pages,
                          ChapterHeadOps(ch, cursorY, img, chapterWord, chapterCount'))
                   /\ cursorY' = BelowTitle(TitleY(y1, chapterWord, ch.title),
                                            ChapterTitleLines(ch.title))
                   /\ contentParts' = ContentPartsOf(ch.content)
                   /\ wrapCalls' = <<ch.content>>
                   /\ li' = 1
                   /\ pc' = IF contentParts' = <<>> THEN "loop" ELSE "body"
    /\ UNCHANGED <<studioVars, book, config, isExporting, fetches, docFormat, fetch, img, formatKey, fmt, marginX, marginTop,
                   marginBottom, chapterWord, ci, saved>>

\* faulty variant of BodyLine: the line that meets the page break is not
\* drawn on the new page
BodyLineDropsAtBreak ==
    /\ pc = "body"
    /\ li <= Len(contentParts)
    /\ IF Overflows(cursorY, fmt, marginBottom)
       THEN /\ pages' = AddPage(pages, "chapter", ci)
            /\ cursorY' = marginTop
       ELSE /\ pages' = Draw(pages, Op("body", cursorY, 0, <<contentParts[li]>>))
            /\ cursorY' = cursorY + fmt.lineHeight
    /\ li' = li + 1
    /\ pc' = IF li = Len(contentParts) THEN "loop" ELSE "body"
    /\ UNCHANGED <<studioVars, book, config, isExporting, wrapCalls, fetches, docFormat, fetch, img, formatKey, fmt, marginX, marginTop,
                   marginBottom, chapterWord, chapterCount, ci, contentParts,
                   saved>>

\* lines 224-231: one body line; a new page first when the line does not fit
BodyLine ==
    /\ pc = "body"
    /\ li <= Len(contentParts)
    /\ LET brk == Overflows(cursorY, fmt, marginBottom)
           y == IF brk THEN marginTop ELSE cursorY
           pp == IF brk THEN AddPage(pages, "chapter", ci) ELSE pages
       IN  /\ pages' = Draw(pp, Op("body", y, 0, <<contentParts[li]>>))
           /\ cursorY' = y + fmt.lineHeight
    /\ li' = li + 1
    /\ pc' = IF li = Len(contentParts) THEN "loop" ELSE "body"
    /\ UNCHANGED <<studioVars, book, config, isExporting, wrapCalls, fetches, docFormat, fetch, img, formatKey, fmt, marginX, marginTop,
                   marginBottom, chapterWord, chapterCount, ci, contentParts,
                   saved>>

\* line 236: after the last chapter, call loadImage for the back cover
BeginBackCover ==
    /\ pc = "loop"
    /\ ci = Len(book.chapters)
    /\ fetch' = FetchFor(book.backCoverImageUrl)
    /\ fetches' = FetchesAfter(fetches, fetch')
    /\ pc' = "awaitBack"
    /\ UNCHANGED <<studioVars, book, config, isExporting, wrapCalls, docFormat, img, formatKey, fmt, marginX, marginTop,
                   marginBottom, pages, chapterWord, chapterCount, ci, cursorY,
                   contentParts, li, saved>>

\* lines 240-287: the back cover
BackCoverOps ==
    LET boxH == Percent(fmt.height, 50)
        boxY == (fmt.height - boxH) \div 2
        background ==
            IF Loaded(img)
            THEN << Op("backImage", 0, fmt.height, <<>>),
                    Op("backOverlay", boxY - Mm(5), boxH + Mm(10), <<>>) >>
            ELSE << Op("fill", 0, fmt.height, <<>>) >>
        blurbLines == SplitTextToSize(
                          OrElse(book.description, <<"N","o"," ","d","e","s","c","r","i","p","t","i","o","n"," ","a","v","a","i","l","a","b","l","e",".">>),
                          Percent(fmt.width, 60), 14)
        bottomY == Percent(fmt.height, 85)
    IN  background
        \o << Op("aboutBook", Percent(fmt.height, 30), 0, <<<<"A","B","O","U","T"," ","T","H","E"," ","B","O","O","K">>>>),
              Op("blurb", Percent(fmt.height, 35), 0, blurbLines),
              Op("barcode", bottomY, Mm(15), <<>>),
              Op("imprint", bottomY + Mm(20), 0, <<<<"L","U","M","I","N","A","B","O","O","K"," ","P","R","E","S","S">>>>) >>

\* faulty variant of PaintBackCover: doc.addPage() is forgotten
PaintBackCoverOnLastPage ==
    /\ pc = "paintBack"
    /\ pages' = DrawAll(pages, BackCoverOps)
    /\ pc' = "save"
    /\ UNCHANGED <<studioVars, book, config, isExporting, wrapCalls, fetches, docFormat, fetch, img, formatKey, fmt, marginX, marginTop,
                   marginBottom, chapterWord, chapterCount, ci, cursorY,
                   contentParts, li, saved>>

\* lines 238-287: a new page at the very end, painted as the back cover
PaintBackCover ==
    /\ pc = "paintBack"
    /\ \E throws \in AddImageThrows(img) :
          IF throws
          THEN /\ pc' = "failed"
               /\ pages' = AddPage(pages, "back", 0)
          ELSE /\ pages' = DrawAll(AddPage(pages, "back", 0), BackCoverOps)
               /\ pc' = "save"
    /\ UNCHANGED <<studioVars, book, config, isExporting, wrapCalls, fetches, docFormat, fetch, img, formatKey, fmt, marginX, marginTop,
                   marginBottom, chapterWord, chapterCount, ci, cursorY,
                   contentParts, li, saved>>

\* lines 289-290: doc.save; generatePDF returns and handleExport goes on to
\* setIsExporting(false) (ExportArchitect.tsx line 23)
Save ==
    /\ pc = "save"
    /\ isExporting' = FALSE
    /\ saved' = Append(saved, FileName(book.title, formatKey))
    /\ pc' = "done"
    /\ UNCHANGED <<studioVars, book, config, wrapCalls, fetches, docFormat, fetch, img, formatKey, fmt, marginX, marginTop,
                   marginBottom, pages, chapterWord, chapterCount, ci, cursorY,
                   contentParts, li>>

Next ==
    \/ StartExport
    \/ LoadImageNoUrl
    \/ FetchSettle
    \/ LoadImageResolve
    \/ PaintCover
    \/ PaintTitlePage
    \/ PaintAuthorPage
    \/ DetectLanguage
    \/ BeginChapter
    \/ ChapterHead
    \/ BodyLine
    \/ BeginBackCover
    \/ PaintBackCover
    \/ Save

Spec == Init /\ [][Next]_vars

----------------------------------------------------------------------------
(* VisualStudio: the handlers *)

\* no export is under way
ExportIdle ==
    /\ book = Book(BookTitle, AuthorName, BareFront, <<>>)
    /\ config = DefaultConfig
    /\ pc = "start"
    /\ fetch = "none"
    /\ fetches = 0
    /\ img = "null"
    /\ docFormat = <<>>
    /\ formatKey = ""
    /\ fmt = FORMATS["a4"]
    /\ marginX = 0
    /\ marginTop = 0
    /\ marginBottom = 0
    /\ pages = <<>>
    /\ chapterWord = <<>>
    /\ chapterCount = 0
    /\ ci = 0
    /\ cursorY = 0
    /\ contentParts = <<>>
    /\ wrapCalls = <<>>
    /\ li = 0
    /\ saved = <<>>
    /\ isExporting = FALSE

StudioInit == ExportIdle /\ StudioIdle

\* handleGenerateImage lines 63-73, 77-78, 83-87: up to the await of
\* generateImage; the closure holds the book of the render it was made in
ClickGenerate ==
    \E target \in Targets :
       /\ CanClick(target)
       /\ Len(calls) < MaxCalls
       /\ isGenerating' = target
       /\ calls' = Append(calls, [target |-> target, snapshot |-> studio])
       /\ UNCHANGED <<studio, exportVars>>

\* handleGenerateImage lines 74, 79, 89-92, 102-104: generateImage resolved;
\* setBook with the closure's book and the new URL, then setIsGenerating(null)
GenerateResolves ==
    \E i \in DOMAIN calls :
       /\ studio' = WithImage(calls[i].snapshot, calls[i].target, UrlFor(calls[i].target))
       /\ calls' = Without(calls, i)
       /\ isGenerating' = "null"
       /\ UNCHANGED exportVars

\* handleGenerateImage lines 95-104: generateImage rejected; the book is
\* left alone
GenerateRejects ==
    \E i \in DOMAIN calls :
       /\ calls' = Without(calls, i)
       /\ isGenerating' = "null"
       /\ UNCHANGED <<studio, exportVars>>

\* handleThemeChange lines 59-61
ChangeTheme ==
    \E theme \in Themes :
       /\ studio' = [studio EXCEPT !.theme = theme]
       /\ UNCHANGED <<calls, isGenerating, exportVars>>

StudioNext ==
    \/ ClickGenerate
    \/ GenerateResolves
    \/ GenerateRejects
    \/ ChangeTheme

StudioSpec == StudioInit /\ [][StudioNext]_vars

----------------------------------------------------------------------------
(* Reading the document back *)

\* the page numbers of chapter k
PagesOf(k) ==
    {p \in DOMAIN pages : pages[p].section = "chapter" /\ pages[p].chapter = k}

\* what chapter k drew, in page order and, on a page, in drawing order
OpsOf(k) ==
    Concat([p \in DOMAIN pages |-> IF p \in PagesOf(k) THEN pages[p].ops ELSE <<>>])

OfKind(ops, kind) == SelectSeq(ops, LAMBDA o : o.kind = kind)

\* the header logic and the title of chapter k have been drawn
HeadDone(k) ==
    \/ k < ci
    \/ k = ci /\ pc \notin {"awaitChapter", "chapterHead", "failed"}

\* chapter k is drawn to its last body line
ChapterDone(k) ==
    \/ k < ci
    \/ k = ci /\ pc \notin {"awaitChapter", "chapterHead", "body", "failed"}

\* the header word of the document is decided
WordDecided == pc \notin {"start", "awaitCover", "paintCover", "titlePage",
                           "awaitAuthor", "paintAuthor", "chapters", "failed"}

\* s contains w as a substring
Contains(s, w) ==
    \E i \in 1..(Len(s) - Len(w) + 1) : SubSeq(s, i, i + Len(w) - 1) = w

\* s starts with w
HasPrefix(s, w) == Len(s) >= Len(w) /\ SubSeq(s, 1, Len(w)) = w

\* the keywords that make a chapter a special section
SpecialKeywords ==
    { <<"i","n","t","r","o">>,
      <<"p","r","o","l","o","g","u","e">>,
      <<"p","r","ó","l","o","g","o">>,
      <<"p","r","e","f","a","c","e">>,
      <<"p","r","e","f","a","c","i","o">> }

\* the title contains, whatever the case, one of the keywords
SpecialTitle(title) ==
    LET low == ToLowerCase(title) IN \E w \in SpecialKeywords : Contains(low, w)

\* how many of the chapters 1..k are not special sections
NumberOf(k) ==
    Cardinality({j \in 1..k : ~SpecialTitle(book.chapters[j].title)})

\* the header lines drawn on the pages of chapter k, as texts
HeadersOf(k) ==
    LET hs == OfKind(OpsOf(k), "header") IN [i \in DOMAIN hs |-> hs[i].lines[1]]

----------------------------------------------------------------------------
(* Chapter numbering *)

\* C1: exporting the chapters "Prologue", "The Start", "Chapter 2:
\* Escalation", "The End" draws no numeric header for "Prologue", "Chapter 1"
\* above "The Start", no separate header for "Chapter 2: Escalation", and
\* "Chapter 3" above "The End".
C1_ExampleHeaders ==
    (pc = "done" /\ book.chapters = ExampleChapters)
    => /\ HeadersOf(1) = <<>>
       /\ HeadersOf(2) = << <<"C","h","a","p","t","e","r"," ","1">> >>
       /\ HeadersOf(3) = <<>>
       /\ HeadersOf(4) = << <<"C","h","a","p","t","e","r"," ","3">> >>

\* C2: once the header logic of chapter k has run, the counter equals the
\* number of non-special chapters among chapters 1..k, also when the header
\* line of a non-special chapter was suppressed, and a header line drawn for
\* chapter k shows that number after the header word.
C2_RunningCount ==
    /\ \A k \in 1..Len(book.chapters) :
          HeadDone(k) =>
             LET hs == HeadersOf(k)
                 text == chapterWord \o <<" ">> \o NumberToString(NumberOf(k))
             IN  \A i \in DOMAIN hs : hs[i] = text
    /\ \A k \in 1..Len(book.chapters) :
          (k = ci /\ HeadDone(k)) => chapterCount = NumberOf(k)

\* a non-special chapter whose header line was suppressed is followed by a
\* chapter whose header line shows a number above 1
C2_Witness ==
    /\ pc = "done"
    /\ \E j, k \in 1..Len(book.chapters) :
          /\ j < k
          /\ ~SpecialTitle(book.chapters[j].title)
          /\ HeadersOf(j) = <<>>
          /\ HeadersOf(k) # <<>>
          /\ NumberOf(k) >= 2

\* C3: a chapter whose title contains intro, prologue, prólogo, preface or
\* prefacio (in any case) gets no numeric header line on any of its pages,
\* and the step that runs its header logic leaves the counter as it was.
C3_SpecialChapters ==
    /\ [](\A k \in 1..Len(book.chapters) :
             SpecialTitle(book.chapters[k].title) => HeadersOf(k) = <<>>)
    /\ [][(pc = "chapterHead" /\ SpecialTitle(book.chapters[ci].title))
             => chapterCount' = chapterCount]_vars

\* a special chapter that is not the first one has been drawn after a counted
\* chapter
C3_Witness ==
    /\ pc = "done"
    /\ \E k \in 2..Len(book.chapters) :
          /\ SpecialTitle(book.chapters[k].title)
          /\ NumberOf(k) >= 1

\* the cursor a chapter's header logic starts at: the top margin, or below
\* the banner when one was drawn
HeaderSlot(k) ==
    LET bs == OfKind(OpsOf(k), "banner")
    IN  IF bs = <<>> THEN marginTop ELSE bs[1].y + bs[1].h + Mm(8) + Mm(2)

\* C4: for a non-special chapter the header line is drawn exactly when the
\* title does not start, in any case, with the header word of the document;
\* a drawn header sits at the cursor and the title 8 mm below it; with the
\* header suppressed the title sits where the header would have been.
C4_HeaderLine ==
    \A k \in 1..Len(book.chapters) :
       (HeadDone(k) /\ ~SpecialTitle(book.chapters[k].title)) =>
          LET title == book.chapters[k].title
              hs == OfKind(OpsOf(k), "header")
              ts == OfKind(OpsOf(k), "chapterTitle")
              prefixed == HasPrefix(ToLowerCase(title), ToLowerCase(chapterWord))
          IN  /\ Len(ts) = 1
              /\ Len(hs) = (IF prefixed THEN 0 ELSE 1)
              /\ ~prefixed => /\ hs[1].y = HeaderSlot(k)
                              /\ ts[1].y = hs[1].y + Mm(8)
              /\ prefixed => ts[1].y = HeaderSlot(k)

\* one document holds a chapter whose header is suppressed although its
\* title spells the header word in another case, and a chapter with a banner
\* and a header drawn below it
C4_Witness ==
    /\ pc = "done"
    /\ \E j, k \in 1..Len(book.chapters) :
          /\ ~SpecialTitle(book.chapters[j].title)
          /\ HeadersOf(j) = <<>>
          /\ ~HasPrefix(book.chapters[j].title, chapterWord)
          /\ HeadersOf(k) # <<>>
          /\ OfKind(OpsOf(k), "banner") # <<>>

----------------------------------------------------------------------------
(* The header word *)

\* the Spanish keywords of a chapter title
SpanishKeywords ==
    { <<"c","a","p","í","t","u","l","o">>,
      <<"i","n","t","r","o","d","u","c","c">>,
      <<"p","r","ó","l">> }

\* the title matches /capítulo|introducc|pról/i
SpanishTitle(title) ==
    LET low == ToLowerCase(title) IN \E w \in SpanishKeywords : Contains(low, w)

\* every numeric header of the document starts with the word w
HeadersUse(w) ==
    \A p \in DOMAIN pages :
       \A i \in DOMAIN pages[p].ops :
          pages[p].ops[i].kind = "header"
             => HasPrefix(pages[p].ops[i].lines[1], w \o <<" ">>)

\* C5: the header word is decided from the chapter titles only: when no
\* title matches a Spanish keyword the word is "Chapter", whatever the other
\* fields of the chapters hold, and every numeric header uses that word.
C5_TitlesOnly ==
    (WordDecided /\ \A k \in 1..Len(book.chapters) :
                       ~SpanishTitle(book.chapters[k].title))
    => (chapterWord = ChapterText /\ HeadersUse(ChapterText))

\* C6: when some chapter title matches /capítulo|introducc|pról/i the header
\* word of the whole document is "Capítulo", also above the chapters with
\* English titles.
C6_SpanishWord ==
    (WordDecided /\ \E k \in 1..Len(book.chapters) :
                       SpanishTitle(book.chapters[k].title))
    => (chapterWord = CapituloText /\ HeadersUse(CapituloText))

\* a document with a Spanish title has drawn a "Capítulo" header above a
\* chapter whose own title holds no Spanish keyword
C6_Witness ==
    /\ pc = "done"
    /\ \E j, k \in 1..Len(book.chapters) :
          /\ SpanishTitle(book.chapters[j].title)
          /\ ~SpanishTitle(book.chapters[k].title)
          /\ HeadersOf(k) # <<>>
          /\ HasPrefix(HeadersOf(k)[1], CapituloText)

----------------------------------------------------------------------------
(* Pagination of the body *)

\* the body lines drawn on the pages of chapter k, in page and drawing order
BodyLinesOf(k) ==
    LET bs == OfKind(OpsOf(k), "body") IN [i \in DOMAIN bs |-> bs[i].lines[1]]

\* the y of the body lines drawn on page p, in drawing order
BodyYs(p) ==
    LET bs == OfKind(pages[p].ops, "body") IN [i \in DOMAIN bs |-> bs[i].y]

\* C7: the body lines drawn over the pages of a chapter, in page order and
\* from the top of each page down, are the wrapped lines of its content in
\* order: all of them once the chapter is finished, the first li - 1 of them
\* while its body is being written.
C7_BodyLines ==
    /\ \A k \in 1..Len(book.chapters) :
          /\ ChapterDone(k) =>
                BodyLinesOf(k) = ContentPartsOf(book.chapters[k].content)
          /\ (k = ci /\ pc = "body") =>
                BodyLinesOf(k) = SubSeq(contentParts, 1, li - 1)
    /\ \A p \in DOMAIN pages :
          LET ys == BodyYs(p) IN \A i \in 2..Len(ys) : ys[i - 1] < ys[i]

\* a finished chapter whose body lines lie on two pages or more
C7_Witness ==
    /\ pc = "done"
    /\ \E k \in 1..Len(book.chapters) :
          /\ Cardinality(PagesOf(k)) >= 2
          /\ \A p \in PagesOf(k) : BodyYs(p) # <<>>

\* pageHeight - marginBottom
Limit == fmt.height - marginBottom

\* how many body lines fit on a page from cursor y down
FitFrom(y) == IF y + fmt.lineHeight > Limit THEN 0 ELSE (Limit - y) \div fmt.lineHeight

\* the cursor the body of chapter k starts at, below its title
BodyStart(k) ==
    LET t == OfKind(OpsOf(k), "chapterTitle")[1]
    IN  t.y + (Len(t.lines) * Mm(10)) + Mm(10)

\* the least number of pages for n body lines starting at cursor y
MinPages(n, y) ==
    IF n <= FitFrom(y) THEN 1
    ELSE 1 + ((n - FitFrom(y)) + FitFrom(marginTop) - 1) \div FitFrom(marginTop)

\* C8: a finished chapter spans more than one page exactly when its wrapped
\* body has more lines than fit between the body's start cursor and
\* pageHeight - marginBottom, and it uses the least number of pages; a page
\* of a chapter is followed by another only when the next line would not
\* have fit on it.
C8_MinimalPages ==
    /\ \A k \in 1..Len(book.chapters) :
          ChapterDone(k) =>
             LET n == Len(ContentPartsOf(book.chapters[k].content))
             IN  /\ (Cardinality(PagesOf(k)) > 1) <=> (n > FitFrom(BodyStart(k)))
                 /\ Cardinality(PagesOf(k)) = MinPages(n, BodyStart(k))
    /\ \A p \in DOMAIN pages :
          (p > 1 /\ pages[p].section = "chapter" /\ pages[p - 1].section = "chapter"
                 /\ pages[p].chapter = pages[p - 1].chapter) =>
             LET ys == BodyYs(p - 1)
                 next == IF ys = <<>> THEN BodyStart(pages[p].chapter)
                         ELSE ys[Len(ys)] + fmt.lineHeight
             IN  next + fmt.lineHeight > Limit

\* one finished document holds a chapter of one page and a chapter of more
C8_Witness ==
    /\ pc = "done"
    /\ \E j, k \in 1..Len(book.chapters) :
          /\ Cardinality(PagesOf(j)) = 1
          /\ Cardinality(PagesOf(k)) >= 2

\* C9: every body line is written at a cursorY with marginTop <= cursorY and
\* cursorY + lineHeight <= pageHeight - marginBottom; when the check of the
\* next line fails, the line is written at marginTop as the first thing on a
\* new page.
C9_LineBounds ==
    /\ [](\A p \in DOMAIN pages :
             LET ys == BodyYs(p)
             IN  \A i \in DOMAIN ys :
                    marginTop <= ys[i] /\ ys[i] + fmt.lineHeight <= Limit)
    /\ [][(pc = "body" /\ cursorY + fmt.lineHeight > Limit)
             => /\ Len(pages') = Len(pages) + 1
                /\ Len(pages'[Len(pages')].ops) = 1
                /\ pages'[Len(pages')].ops[1].kind = "body"
                /\ pages'[Len(pages')].ops[1].y = marginTop
                /\ cursorY' = marginTop + fmt.lineHeight]_vars

\* a body line has just been moved to a new page
C9_Witness ==
    /\ pc \in {"body", "loop"}
    /\ Cardinality(PagesOf(ci)) >= 2
    /\ BodyYs(Len(pages)) = <<marginTop>>

----------------------------------------------------------------------------
(* The order of the sections *)

\* the place of a page's section in the document
Rank(p) ==
    CASE pages[p].section = "cover" -> 0
      [] pages[p].section = "title" -> 1
      [] pages[p].section = "author" -> 2
      [] pages[p].section = "chapter" -> 2 + pages[p].chapter
      [] pages[p].section = "back" -> 3 + Len(book.chapters)

\* what each section draws
KindsOf(section) ==
    CASE section = "cover" ->
            {"coverImage", "overlay", "fill", "coverTitleShadow", "coverTitle",
             "coverAuthor", "edition"}
      [] section = "title" -> {"titlePageTitle", "titlePageAuthor"}
      [] section = "author" -> {"portrait", "frame", "aboutHeading", "bio"}
      [] section = "chapter" -> {"banner", "header", "chapterTitle", "body"}
      [] section = "back" ->
            {"backImage", "backOverlay", "fill", "aboutBook", "blurb", "barcode",
             "imprint"}

\* C10: the pages are, in order, the front cover, the title page, the author
\* page when there is one, the chapters in array order, each on pages of its
\* own that follow one another and begin with its title, and the back cover
\* last; each page holds only what its section draws; doc.save is called
\* once, when all of this is painted, and nothing is painted afterwards.
C10_SectionOrder ==
    /\ \A p, q \in DOMAIN pages :
          p < q => /\ Rank(p) <= Rank(q)
                   /\ Rank(p) = Rank(q) => pages[p].section = "chapter"
    /\ \A p \in DOMAIN pages :
          /\ p = 1 => pages[p].section = "cover"
          /\ p = 2 => pages[p].section = "title"
          /\ \A i \in DOMAIN pages[p].ops :
                pages[p].ops[i].kind \in KindsOf(pages[p].section)
    /\ \A k \in 1..Len(book.chapters) :
          /\ k <= ci => PagesOf(k) # {}
          /\ HeadDone(k) =>
                LET first == CHOOSE p \in PagesOf(k) : \A q \in PagesOf(k) : p <= q
                    ts == OfKind(pages[first].ops, "chapterTitle")
                IN  /\ Len(ts) = 1
                    /\ ts[1].lines = ChapterTitleLines(book.chapters[k].title)
    /\ Len(saved) <= 1
    /\ saved # <<>> <=> pc = "done"
    /\ pc = "done" =>
          /\ ci = Len(book.chapters)
          /\ pages[Len(pages)].section = "back"
          /\ OfKind(pages[Len(pages)].ops, "imprint") # <<>>

\* a saved document with an author page, two chapters or more and a chapter
\* of several pages
C10_Witness ==
    /\ pc = "done"
    /\ Len(saved) = 1
    /\ \E p \in DOMAIN pages : pages[p].section = "author"
    /\ Len(book.chapters) >= 2
    /\ \E k \in 1..Len(book.chapters) : Cardinality(PagesOf(k)) >= 2

----------------------------------------------------------------------------
(* The image loader *)

\* the outcomes of the attempt in which no image was loaded
FailureOutcomes == FetchOutcomes \ {"ok"}

\* C11: whatever failure the single attempt of loadImage comes to (fetch
\* rejects, a non-success response, an unreadable body, a reader error),
\* the step that resolves the promise gives null and generatePDF resumes
\* after its await.
C11_FailureGivesNull ==
    [][(pc \in AwaitPcs /\ fetch \in FailureOutcomes)
          => (img' = "null" /\ pc' = ResumeAt(pc))]_vars

\* the steps that paint what a loadImage was awaited for
PaintPcs == {"paintCover", "paintAuthor", "chapterHead", "paintBack"}

\* the drawing calls that place a loaded image
ImageKinds == {"coverImage", "portrait", "banner", "backImage"}

\* the book and the configuration are such that the export reaches its first
\* loadImage and the cover typography
WellFormed == book.title # Absent /\ config.pageSize \notin ObjectPrototypeKeys

\* C12: whatever the image loads come to, a well-formed export never aborts
\* (doc.save itself never fails here), and the step that paints a section
\* whose image was not loaded (no URL, or a failed attempt) places no image
\* on the page and goes on.
C12_ImageFailures ==
    /\ [](WellFormed => pc # "failed")
    /\ [][(WellFormed /\ pc \in PaintPcs /\ img # "data")
             => /\ pc' # "failed"
                /\ \A i \in DOMAIN pages'[Len(pages')].ops :
                      pages'[Len(pages')].ops[i].kind \notin ImageKinds]_vars

----------------------------------------------------------------------------
(* Missing fields *)

\* the optional fields the book does not have
Missing == {f \in OptionalFields : ~Truthy(book[f])}

\* the kinds of what was drawn on the pages of a section
DrawnOn(section) ==
    UNION { {pages[p].ops[i].kind : i \in DOMAIN pages[p].ops} :
              p \in {q \in DOMAIN pages : pages[q].section = section} }

\* the text lines of the drawing calls of one kind on the pages of a section
LinesOn(section, kind) ==
    UNION { {pages[p].ops[i].lines : i \in {j \in DOMAIN pages[p].ops :
                                                  pages[p].ops[j].kind = kind}} :
              p \in {q \in DOMAIN pages : pages[q].section = section} }

BioPlaceholder == <<"A","u","t","h","o","r"," ","b","i","o"," ","n","o","t"," ","p","r","o","v","i","d","e","d",".">>

\* C13: a well-formed export of a book that lacks some of coverImageUrl,
\* backCoverImageUrl, authorBio, authorImageUrl never aborts, and once it
\* is done one file is saved and each missing field shows as its fallback:
\* a solid cover background, a plain dark back cover, no portrait, the
\* placeholder bio, or no author page when both author fields are missing.
C13_MissingFields ==
    (WellFormed /\ Missing # {}) =>
       /\ pc # "failed"
       /\ pc = "done" =>
             /\ Len(saved) = 1
             /\ "coverImageUrl" \in Missing =>
                   ("fill" \in DrawnOn("cover") /\ "coverImage" \notin DrawnOn("cover"))
             /\ "backCoverImageUrl" \in Missing =>
                   /\ "fill" \in DrawnOn("back")
                   /\ DrawnOn("back") \cap {"backImage", "backOverlay"} = {}
             /\ ("authorImageUrl" \in Missing /\ "authorBio" \notin Missing) =>
                   /\ "bio" \in DrawnOn("author")
                   /\ DrawnOn("author") \cap {"portrait", "frame"} = {}
             /\ ("authorBio" \in Missing /\ "authorImageUrl" \notin Missing) =>
                   LinesOn("author", "bio") =
                      {SplitTextToSize(BioPlaceholder, fmt.width - (marginX * 3),
                                       fmt.fontSize.body)}
             /\ {"authorBio", "authorImageUrl"} \subseteq Missing =>
                   DrawnOn("author") = {}

----------------------------------------------------------------------------
(* Absent title or author *)

\* the lines drawn for the title and the author on the cover and the title page
NameLines ==
    LinesOn("cover", "coverTitle") \cup LinesOn("cover", "coverAuthor")
    \cup LinesOn("title", "titlePageTitle") \cup LinesOn("title", "titlePageAuthor")

\* a drawn value that is no text at all: nothing, the empty line, the word
\* undefined, or a bare "by "
Blank ==
    { <<>>, <<<<>>>>, <<Absent>>, <<<<"b","y"," ">>>>, <<<<"b","y"," ">> \o Absent>> }

\* C14: when the title or the author of the book is undefined or empty,
\* painting the front cover and painting the title page do not abort the
\* export, and every line drawn for the title and the author carries text,
\* a placeholder where the value is missing.
C14_AbsentTitleOrAuthor ==
    [][(/\ pc \in {"paintCover", "titlePage"}
        /\ img # "junk"
        /\ ~Truthy(book.title) \/ ~Truthy(book.author))
          => (pc' # "failed" /\ NameLines' \cap Blank = {})]_vars

----------------------------------------------------------------------------
(* Fetches *)

\* the URL the pending call of loadImage was given
UrlAt(p) ==
    CASE p = "awaitCover" -> book.coverImageUrl
      [] p = "awaitAuthor" -> book.authorImageUrl
      [] p = "awaitChapter" -> book.chapters[ci].imageUrl
      [] p = "awaitBack" -> book.backCoverImageUrl

\* the non-empty image URLs of the book: cover, author, chapters, back cover
UrlCount ==
    Cardinality({f \in {"coverImageUrl", "authorImageUrl", "backCoverImageUrl"} :
                    Truthy(book[f])})
    + Cardinality({k \in DOMAIN book.chapters : Truthy(book.chapters[k].imageUrl)})

\* C15: a call of loadImage with an empty or undefined URL issues no fetch
\* and resolves to null in its next step, so one export never issues more
\* fetches than the book has non-empty image URLs among cover, author,
\* chapters and back cover.
C15_NoFetchWithoutUrl ==
    /\ [](fetches <= UrlCount)
    /\ []((pc \in AwaitPcs /\ ~Truthy(UrlAt(pc))) => fetch = "none")
    /\ [][(pc \in AwaitPcs /\ ~Truthy(UrlAt(pc)))
             => (img' = "null" /\ fetches' = fetches /\ pc' = ResumeAt(pc))]_vars

\* a finished export that fetched an image and also called loadImage with
\* no URL for the author page
C15_Witness ==
    /\ pc = "done"
    /\ fetches >= 1
    /\ fetches = UrlCount
    /\ HasAuthorPage(book)
    /\ ~Truthy(book.authorImageUrl)

----------------------------------------------------------------------------
(* Format lookup *)

CatalogKeys == {"pocket", "letter", "a4"}

\* C16: once the format is resolved it is a catalog entry with margins: the
\* entry of the key itself for pocket, letter and a4, and for every other
\* pageSize the a4 entry, 210 x 297 mm with margins of 25.4 mm and a line
\* height of 7 mm.
C16_FormatLookup ==
    pc # "start" =>
       /\ HasMargin(fmt)
       /\ IF config.pageSize \in CatalogKeys
          THEN fmt = FORMATS[config.pageSize]
          ELSE /\ fmt.width = Mm(210)
               /\ fmt.height = Mm(297)
               /\ fmt.margin = [top |-> Mm10(254), bottom |-> Mm10(254), x |-> Mm10(254)]
               /\ fmt.lineHeight = Mm(7)

----------------------------------------------------------------------------
(* Bleed *)

\* the catalog entry a pageSize stands for
CatalogEntry(pageSize) ==
    IF pageSize \in CatalogKeys THEN FORMATS[pageSize] ELSE FORMATS["a4"]

\* the millimetres bleed adds to a margin
BleedExtra(bleed) == IF bleed THEN Mm(5) ELSE 0

----------------------------------------------------------------------------
(* File name *)

\* the characters a-z and 0-9
StemChars ==
    {"a","b","c","d","e","f","g","h","i","j","k","l","m","n","o","p","q","r","s","t","u","v","w","x","y","z",
     "0","1","2","3","4","5","6","7","8","9"}

\* the title lowercased, then every character outside a-z and 0-9 replaced
\* by an underscore; "book" for an empty or missing title
StemOf(title) ==
    IF Truthy(title)
    THEN LET low == ToLowerCase(title)
         IN  SubSeq([i \in DOMAIN low |-> IF low[i] \in StemChars THEN low[i] ELSE "_"],
                    1, Len(low))
    ELSE <<"b","o","o","k">>

\* C18: the file a finished export saves is named by the stem of the title,
\* "_", the format key and ".pdf", where the stem is the lowercased title
\* with every character outside a-z and 0-9 replaced by "_", and "book" for
\* an empty title; "My, Book! 2024" gives "my__book__2024".
C18_FileNameStem ==
    pc = "done" =>
       /\ saved = << StemOf(book.title) \o <<"_">> \o PageSizeText[formatKey] \o <<".","p","d","f">> >>
       /\ Len(StemOf(book.title)) = Len(OrElse(book.title, <<"b","o","o","k">>))
       /\ book.title = <<"M","y",","," ","B","o","o","k","!"," ","2","0","2","4">>
             => StemOf(book.title) = <<"m","y","_","_","b","o","o","k","_","_","2","0","2","4">>

----------------------------------------------------------------------------
(* Author page and back cover *)

\* the pages of a section
SectionPages(section) == {p \in DOMAIN pages : pages[p].section = section}

\* C19: once the title page is painted the document has an author page
\* exactly when the book has an author image URL or an author bio; it is
\* one page, right after the title page and before every chapter page; and
\* painting it draws the portrait and its frame only when the author image
\* loaded.
C19_AuthorPage ==
    /\ [](SectionPages("title") # {} =>
            /\ SectionPages("author") # {}
                  <=> (Truthy(book.authorImageUrl) \/ Truthy(book.authorBio))
            /\ Cardinality(SectionPages("author")) <= 1
            /\ \A a \in SectionPages("author") :
                  /\ a - 1 \in SectionPages("title")
                  /\ \A c \in SectionPages("chapter") : a < c)
    /\ [][pc = "paintAuthor" =>
            (DrawnOn("author")' \cap {"portrait", "frame"} # {} => img = "data")]_vars

\* C20: painting the back cover adds a new page, which is the last page of
\* the finished document and comes after every chapter page; when the back
\* image did not load the export does not abort there and the page gets the
\* dark fill, without image and without overlay box.
C20_BackCover ==
    /\ [](pc = "done" =>
            /\ SectionPages("back") = {Len(pages)}
            /\ \A c \in SectionPages("chapter") : c < Len(pages))
    /\ [][pc = "paintBack" =>
            /\ Len(pages') = Len(pages) + 1
            /\ pages'[Len(pages')].section = "back"
            /\ img # "data" =>
                  /\ pc' # "failed"
                  /\ "fill" \in DrawnOn("back")'
                  /\ DrawnOn("back")' \cap {"backImage", "backOverlay"} = {}]_vars

----------------------------------------------------------------------------
(* Inputs are read only *)

\* C21: no step of an export, whether it goes on or fails, changes the book
\* (its fields, its chapters, their order) or the export configuration.
C21_InputsUntouched == [][book' = book /\ config' = config]_vars

\* an export of two chapters that ran to the end, and one that failed
C21_Witness ==
    /\ pc \in {"done", "failed"}
    /\ Len(book.chapters) = 2
    /\ ci = 2

----------------------------------------------------------------------------
(* Word wrap *)

\* the words of a text: its maximal runs of characters other than space and
\* line break, in order
WordSeq(text) ==
    LET spaced == SubSeq([i \in DOMAIN text |-> IF text[i] = "\n" THEN " " ELSE text[i]],
                         1, Len(text))
    IN  SelectSeq(SplitOn(spaced, " "), LAMBDA w : w # <<>>)

\* C22: when the body of a chapter is wrapped and each of its words fits
\* within the content width, no produced line measures more than the
\* content width, and the produced lines joined by single spaces hold the
\* words of the body, each once and in the order of the body.
C22_WrapKeepsWords ==
    pc = "body" =>
       LET content == book.chapters[ci].content
           maxWidth == fmt.width - (2 * marginX)
           size == fmt.fontSize.body
           words == WordSeq(content)
       IN  /\ (\A i \in DOMAIN words : TextWidth(words[i], size) <= maxWidth)
                => \A l \in DOMAIN contentParts :
                      TextWidth(contentParts[l], size) <= maxWidth
           /\ WordSeq(Join(contentParts, <<" ">>)) = words

\* a body being written whose first paragraph did not fit on one line and
\* was wrapped into lines of several words
C22_Witness ==
    /\ pc = "body"
    /\ book.chapters[ci].content = TwoParagraphs
    /\ Len(contentParts) >= 4
    /\ Len(WordSeq(contentParts[1])) >= 2
    /\ Len(WordSeq(contentParts[2])) >= 2

----------------------------------------------------------------------------
(* Portrait formats *)

\* C23: the page format an export resolved, whether by one of the keys
\* pocket, letter, a4 or by the fallback to a4, is taller than wide, and so
\* is the page size the document was opened with.
C23_Portrait ==
    (pc # "start" /\ HasMargin(fmt)) =>
       /\ fmt.height > fmt.width
       /\ docFormat[2] > docFormat[1]

\* a finished export of an unknown or absent pageSize, which fell back to a4
C23_Witness ==
    /\ pc = "done"
    /\ config.pageSize \in {"legal", ""}
    /\ docFormat = <<Mm(210), Mm(297)>>

----------------------------------------------------------------------------
(* One fetch at a time *)

\* a call of loadImage is under way: its fetch is pending, or settled with
\* generatePDF not yet resumed
InFlight == fetch # "none"

\* C24: a step issues a fetch only when no call of loadImage is under way,
\* and one fetch at most; while a call is under way no drawing is done and
\* no page is added; and the fetch for the banner of a chapter after the
\* first is issued only when every body line of the chapter before it has
\* been drawn.
C24_OneFetchAtATime ==
    /\ [][fetches' # fetches => (~InFlight /\ fetches' = fetches + 1 /\ fetch' = "pending")]_vars
    /\ [][InFlight => pages' = pages]_vars
    /\ [][(fetches' # fetches /\ pc' = "awaitChapter" /\ ci' > 1)
             => /\ ci' = ci + 1
                /\ Len(BodyLinesOf(ci)) = Len(ContentPartsOf(book.chapters[ci].content))]_vars

\* the banner fetch of a second chapter is pending, the first chapter
\* having had a banner fetch of its own and a body
C24_Witness ==
    /\ pc = "awaitChapter"
    /\ fetch = "pending"
    /\ ci = 2
    /\ fetches = 2
    /\ Len(BodyLinesOf(1)) >= 1

----------------------------------------------------------------------------
(* Termination *)

Terminated == pc \in {"done", "failed"}

\* how far generatePDF has come: the section, the chapter, the step within
\* the chapter, the body line, and whether the fetch awaited has settled
Section(p) ==
    CASE p = "start" -> 0
      [] p = "awaitCover" -> 1
      [] p = "paintCover" -> 2
      [] p = "titlePage" -> 3
      [] p = "awaitAuthor" -> 4
      [] p = "paintAuthor" -> 5
      [] p = "chapters" -> 6
      [] p \in {"loop", "awaitChapter", "chapterHead", "body"} -> 7
      [] p = "awaitBack" -> 8
      [] p = "paintBack" -> 9
      [] p = "save" -> 10
      [] p \in {"done", "failed"} -> 11

StepInChapter(p) ==
    CASE p = "awaitChapter" -> 1
      [] p = "chapterHead" -> 2
      [] p = "body" -> 3
      [] p = "loop" -> 4
      [] OTHER -> 0

Progress ==
    << Section(pc),
       IF Section(pc) = 7 THEN ci ELSE 0,
       StepInChapter(pc),
       IF pc = "body" THEN li ELSE 0,
       IF fetch \in FetchOutcomes THEN 1 ELSE 0 >>

\* the statement generatePDF stands at can run: an await has a call of
\* loadImage behind it that returns, settles or can settle, the chapter
\* loop has a chapter or the back cover before it, the body loop a line
Ready ==
    CASE pc \in AwaitPcs -> fetch \in {"none", "pending"} \cup FetchOutcomes
      [] pc = "loop" -> ci \in 0..Len(book.chapters)
      [] pc = "body" -> li \in 1..Len(contentParts)
      [] pc \in {"start", "paintCover", "titlePage", "paintAuthor", "chapters",
                 "chapterHead", "paintBack", "save"} -> TRUE
      [] OTHER -> FALSE

RECURSIVE Before(_, _)
\* lexicographic order of tuples of the same length
Before(a, b) ==
    /\ a # <<>>
    /\ \/ Head(a) < Head(b)
       \/ Head(a) = Head(b) /\ Before(Tail(a), Tail(b))

\* C25: an export always comes to its end when every fetch settles: short of
\* the end (doc.save called, or the export failed) a step is always
\* possible, a pending fetch settling being one, and every step moves the
\* export forward through its sections, chapters and body lines, which are
\* finitely many.  While a fetch is pending nothing but its settling
\* happens: no page is added, nothing is drawn, nothing is saved and
\* generatePDF stays at its await, so an export whose fetch never settles
\* never saves.
C25_Termination ==
    /\ [](~Terminated => Ready)
    /\ [][~Terminated /\ Before(Progress, Progress')]_vars
    /\ [][fetch = "pending" =>
            /\ fetch' \in FetchOutcomes
            /\ pc' = pc /\ pages' = pages /\ saved' = saved /\ ci' = ci]_vars
    /\ [](fetch = "pending" => (pc \in AwaitPcs /\ saved = <<>>))

\* an export that waited for the banner of its second chapter and was saved
C25_Witness ==
    /\ pc = "done"
    /\ fetches = 2
    /\ Len(book.chapters) = 2
    /\ saved # <<>>

----------------------------------------------------------------------------
(* Paragraphs *)

\* the paragraphs of a text: its parts between blank lines
ParagraphsOf(text) ==
    LET segs == SplitOn(text, "\n")
        full(i) == segs[i] # <<>>
        starts == SelectSeq([i \in DOMAIN segs |-> i],
                            LAMBDA i : full(i) /\ (i = 1 \/ ~full(i - 1)))
        endOf(i) == CHOOSE j \in i..Len(segs) :
                       /\ \A k \in i..j : full(k)
                       /\ j = Len(segs) \/ ~full(j + 1)
    IN  [k \in DOMAIN starts |->
            Join(SubSeq(segs, starts[k], endOf(starts[k])), <<"\n">>)]

\* no body line holds words of two paragraphs: the words of each line lie
\* side by side in one paragraph
LinesWithinParagraphs(lines, pars) ==
    \A l \in DOMAIN lines :
       LET ws == WordSeq(lines[l])
       IN  ws # <<>> => \E p \in DOMAIN pars : Contains(WordSeq(pars[p]), ws)

\* C26: when the body of a chapter is about to be written, the content has
\* been split at its blank lines and splitTextToSize called once for each
\* paragraph, and no body line holds words of two paragraphs.
C26_WrapPerParagraph ==
    (pc = "body" /\ li = 1) =>
       LET pars == ParagraphsOf(book.chapters[ci].content)
       IN  /\ wrapCalls = pars
           /\ LinesWithinParagraphs(contentParts, pars)

\* C26 as amended: when the body of a chapter is about to be written,
\* splitTextToSize has been called once, with the whole content, and no
\* body line holds words of two paragraphs.
C26_WrapWholeContent ==
    (pc = "body" /\ li = 1) =>
       LET content == book.chapters[ci].content
       IN  /\ wrapCalls = <<content>>
           /\ LinesWithinParagraphs(contentParts, ParagraphsOf(content))

\* the body of two paragraphs, wrapped and about to be written
C26_Witness ==
    /\ pc = "body"
    /\ li = 1
    /\ Len(ParagraphsOf(book.chapters[ci].content)) = 2
    /\ Len(wrapCalls) = 1
    /\ Len(contentParts) >= 4

----------------------------------------------------------------------------
(* Text within the margins *)

\* the y of the text lines of a drawing call: a call with several lines
\* puts them 10 mm apart, the height line 216 allows for each title line
LineYs(op) == {op.y + ((k - 1) * Mm(10)) : k \in DOMAIN op.lines}

\* C27: every text line drawn on a chapter page, the numeric header, each
\* line of the chapter title and each body line, lies between marginTop
\* and the page height less marginBottom.
C27_TextWithinMargins ==
    \A p \in SectionPages("chapter") :
       \A i \in DOMAIN pages[p].ops :
          pages[p].ops[i].kind \in {"header", "chapterTitle", "body"} =>
             \A y \in LineYs(pages[p].ops[i]) :
                marginTop <= y /\ y <= fmt.height - marginBottom

----------------------------------------------------------------------------
(* The export button *)

\* C28: once an export attempt is over, generatePDF having returned or
\* thrown, isExporting is false again and the export button is enabled.
C28_ButtonEnabledAgain == Terminated => ~isExporting

----------------------------------------------------------------------------
(* Overlapping image generations *)

\* C29: when a generation completes, the book keeps everything it held: the
\* image URLs of the other targets, those of generations completed in the
\* meantime among them, and the theme chosen in the meantime; a generation
\* that succeeded adds its own URL.
C29_NoLostUpdate ==
    [][Len(calls') < Len(calls) =>
         \E i \in DOMAIN calls :
            /\ calls' = Without(calls, i)
            /\ studio'.theme = studio.theme
            /\ \A t \in Targets \ {calls[i].target} :
                  studio'.images[t] = studio.images[t]]_vars

----------------------------------------------------------------------------
(* The chapter labels of the previews                                      *)
(* (components/steps/ManuscriptArchitect.tsx, VisualStudio.tsx)            *)

\* the language settings of the manuscript screen
Languages == {"en", "es"}

\* title.toLowerCase().replace(/[:.]/g, '')
NormalizedTitle(title) ==
    SelectSeq(ToLowerCase(title), LAMBDA c : c \notin {":", "."})

\* previousChapters?.length || (index + 1), index counting from 0
PreviewNumber(chapters, index) ==
    LET previousChapters ==
            SelectSeq(SubSeq(chapters, 1, index + 1), LAMBDA c : ~IsSpecial(c.title))
    IN  IF Len(previousChapters) = 0 THEN index + 1 ELSE Len(previousChapters)

\* getChapterLabel of the manuscript preview: the label, or Absent for null
getChapterLabel(language, chapters, index, title) ==
    IF IsSpecial(title) THEN Absent
    ELSE LET chapterNum == PreviewNumber(chapters, index)
             labelStr == IF language = "es" THEN CapituloText ELSE ChapterText
             fullLabel == labelStr \o <<" ">> \o NumberToString(chapterNum)
             normalizedTitle == NormalizedTitle(title)
         IN  IF \/ Contains(normalizedTitle, ToLowerCase(fullLabel))
                \/ Contains(normalizedTitle,
                            <<"c","h","a","p","t","e","r"," ">> \o NumberToString(chapterNum))
                \/ Contains(normalizedTitle,
                            <<"c","a","p","í","t","u","l","o"," ">> \o NumberToString(chapterNum))
             THEN Absent
             ELSE fullLabel

\* the label above the chapter title in the visual preview: the label, or
\* the empty string
VisualLabel(chapters, chapterIndex) ==
    LET title == chapters[chapterIndex + 1].title IN
    IF IsSpecial(title) THEN <<>>
    ELSE LET num == PreviewNumber(chapters, chapterIndex)
             label == ChapterText \o <<" ">> \o NumberToString(num)
             spanishLabel == CapituloText \o <<" ">> \o NumberToString(num)
         IN  IF \/ Contains(ToLowerCase(title), ToLowerCase(label))
                \/ Contains(ToLowerCase(title), ToLowerCase(spanishLabel))
             THEN <<>>
             ELSE label

\* C30: whatever the language setting, both previews show a label for a
\* chapter exactly when the PDF draws a header line on the chapter's page,
\* and the label is the text of that header line (same word, same number).
C30_PreviewsMatchPdf ==
    \A k \in 1..Len(book.chapters) :
       HeadDone(k) =>
          \A language \in Languages :
             LET manuscript == getChapterLabel(language, book.chapters, k - 1,
                                               book.chapters[k].title)
                 visual == VisualLabel(book.chapters, k - 1)
             IN  /\ HeadersOf(k) = (IF manuscript = Absent THEN <<>> ELSE <<manuscript>>)
                 /\ HeadersOf(k) = (IF visual = <<>> THEN <<>> ELSE <<visual>>)

====
